---------------------------- MODULE Spec2Model ----------------------------
(***************************************************************************)
(* A model of the Deepgram speech-intelligence demo:                       *)
(*   - deepgram_processor.py : response normalizer and pipeline            *)
(*   - narrative_renderer.py : narrative template                          *)
(*   - tts_processor.py      : speech synthesis wrapper and its cache      *)
(*                                                                         *)
(* Python values are modelled as tagged records, so that a value of any    *)
(* type can stand where the untyped code accepts it:                       *)
(*   None -> Null, str -> Str(s), number -> Num(n), dict -> Map(f),        *)
(*   list -> List(l).  A raised exception is the value Raised(kind).       *)
(* Scores are numbers counted in hundredths (Num(90) is 0.90).             *)
(***************************************************************************)
EXTENDS Integers, Sequences, FiniteSets, TLC

VARIABLES
    resp_obj,      \* normalizer: the raw analysis response handed in
    normalized,    \* normalizer: what normalize_analyze returned (or raised)
    analysis,      \* renderer: the record handed to render_narrative
    top_n,         \* renderer: the top_n argument
    narrative,     \* renderer: the rendered narrative (or the raised error)
    request,       \* pipeline: the arguments of the process_input call
    remote_log,    \* pipeline: the remote requests issued by that call
    outcome,       \* pipeline: what process_input returned or raised
    cache,         \* TTS: TTSProcessor.cache of the one processor instance
    last,          \* TTS: the last synthesis call, its posts and its result
    seen,          \* TTS: the (voice, language) pairs of the calls before it
    ncalls,        \* TTS: number of synthesis calls made so far
    session_state, \* page: st.session_state, its three result fields
    notice,        \* page: what the last Analyze click showed
    nruns          \* page: number of Analyze clicks so far

vars == <<resp_obj, normalized, analysis, top_n, narrative,
          request, remote_log, outcome, cache, last, seen, ncalls,
          session_state, notice, nruns>>

normVars   == <<resp_obj, normalized>>
renderVars == <<analysis, top_n, narrative>>
pipeVars   == <<request, remote_log, outcome>>
ttsVars    == <<cache, last, seen, ncalls>>
pageVars   == <<session_state, notice, nruns>>

-----------------------------------------------------------------------------
(* Python values *)

Null      == [t |-> "null"]
Str(s)    == [t |-> "str", s |-> s]
Num(n)    == [t |-> "num", n |-> n]
Map(f)    == [t |-> "map", m |-> f]
List(l)   == [t |-> "list", l |-> l]
Raised(k) == [t |-> "raise", e |-> k]

\* Not a Python value: marks a key that a constructed mapping leaves out.
Absent  == [t |-> "absent"]
\* Not a Python value: the function has not been applied yet.
Pending == [t |-> "pending"]

IsRaise(v) == v.t = "raise"

EmptyDict == Map([k \in {} |-> Null])
EmptyList == List(<<>>)

\* The dict literal built from key/value pairs, without the Absent ones.
MkMap(pairs) ==
    LET present == {p \in pairs : p[2] # Absent}
        keys    == {p[1] : p \in present}
    IN  Map([k \in keys |-> (CHOOSE p \in present : p[1] = k)[2]])

\* Python truthiness: None, {}, [], "" and 0 are falsy.
Falsy(v) ==
    \/ v.t = "null"
    \/ v.t = "map"  /\ DOMAIN v.m = {}
    \/ v.t = "list" /\ v.l = <<>>
    \/ v.t = "str"  /\ v.s = ""
    \/ v.t = "num"  /\ v.n = 0

\* d.get(k, default): only a dict has .get; an exception already raised
\* while evaluating d propagates.
PyGet(d, k, default) ==
    IF IsRaise(d) THEN d
    ELSE IF d.t = "map"
         THEN IF k \in DOMAIN d.m THEN d.m[k] ELSE default
         ELSE Raised("AttributeError")

\* (v or default)
PyOr(v, default) ==
    IF IsRaise(v) THEN v ELSE IF Falsy(v) THEN default ELSE v

RECURSIVE SetToSeq(_)
SetToSeq(S) ==
    IF S = {} THEN <<>>
    ELSE LET x == CHOOSE y \in S : TRUE IN <<x>> \o SetToSeq(S \ {x})

\* for x in v: a list yields its elements, a dict its keys, a str its
\* characters (kept whole here: any non-empty str element fails the same
\* way on .get); None and numbers are not iterable.
PyIter(v) ==
    IF IsRaise(v) THEN v
    ELSE IF v.t = "list" THEN v
    ELSE IF v.t = "map"
         THEN List([i \in 1..Cardinality(DOMAIN v.m) |->
                       Str(SetToSeq(DOMAIN v.m)[i])])
    ELSE IF v.t = "str"
         THEN (IF v.s = "" THEN EmptyList ELSE List(<<v>>))
    ELSE Raised("TypeError")

-----------------------------------------------------------------------------
(* deepgram_processor.py: the response normalizer *)

\* An SDK response object, whose to_json() serialises to the mapping j.
SdkObject(j) == [t |-> "sdk", json |-> j]

to_dict(obj) ==
    IF obj.t = "map" THEN obj
    ELSE IF obj.t = "sdk" THEN obj.json
    ELSE Raised("TypeError")

\* The inner loop body of normalize_analyze: one {name, score} entry per
\* item, under the output key outKey.
RECURSIVE EntriesOf(_, _)
EntriesOf(items, outKey) ==
    IF items = <<>> THEN EmptyList
    ELSE LET it    == Head(items)
             name  == PyGet(it, outKey, Str(""))
             score == PyGet(it, "confidence_score", Null)
             rest  == EntriesOf(Tail(items), outKey)
         IN  IF IsRaise(name) THEN name
             ELSE IF IsRaise(score) THEN score
             ELSE IF IsRaise(rest) THEN rest
             ELSE List(<<Map([k \in {outKey, "score"} |->
                               IF k = "score" THEN score ELSE name])>>
                       \o rest.l)

\* The outer loop of normalize_analyze over the segments: each segment's
\* (seg.get(listKey, []) or []) is iterated in turn.
RECURSIVE SegmentEntries(_, _, _)
SegmentEntries(segs, listKey, outKey) ==
    IF segs = <<>> THEN EmptyList
    ELSE LET inner == PyIter(PyOr(PyGet(Head(segs), listKey, EmptyList),
                                  EmptyList))
             here  == IF IsRaise(inner) THEN inner
                      ELSE EntriesOf(inner.l, outKey)
             rest  == IF IsRaise(here) THEN here
                      ELSE SegmentEntries(Tail(segs), listKey, outKey)
         IN  IF IsRaise(here) THEN here
             ELSE IF IsRaise(rest) THEN rest
             ELSE List(here.l \o rest.l)

\* j.get("results", {}).get(section, {}).get("segments", []) or []
SegmentsAt(j, section) ==
    PyIter(PyOr(PyGet(PyGet(PyGet(j, "results", EmptyDict),
                            section, EmptyDict),
                      "segments", EmptyList),
                EmptyList))

SectionEntries(j, section, outKey) ==
    LET segs == SegmentsAt(j, section)
    IN  IF IsRaise(segs) THEN segs
        ELSE SegmentEntries(segs.l, section, outKey)

\* j.get("results", {}).get("sentiments", {}).get("average", {}) or {}
AverageOf(j) ==
    PyOr(PyGet(PyGet(PyGet(j, "results", EmptyDict),
                     "sentiments", EmptyDict),
               "average", EmptyDict),
         EmptyDict)

normalize_analyze(obj) ==
    LET j       == to_dict(obj)
        avg     == AverageOf(j)
        label   == PyGet(avg, "sentiment", Str(""))
        score   == PyGet(avg, "sentiment_score", Null)
        topics  == SectionEntries(j, "topics", "topic")
        intents == SectionEntries(j, "intents", "intent")
    IN  IF IsRaise(j) THEN j
        ELSE IF IsRaise(label) THEN label
        ELSE IF IsRaise(score) THEN score
        ELSE IF IsRaise(topics) THEN topics
        ELSE IF IsRaise(intents) THEN intents
        ELSE Map([sentiment |-> Map([label |-> label, score |-> score]),
                  topics    |-> topics,
                  intents   |-> intents])

-----------------------------------------------------------------------------
(* Raw analysis responses: every branch missing, null, empty or filled *)

MaxSegments == 2    \* segments per section
MaxEntries  == 1    \* topics / intents per segment

RECURSIVE SeqsUpTo(_, _)
SeqsUpTo(S, n) ==
    IF n = 0 THEN {<<>>}
    ELSE LET shorter == SeqsUpTo(S, n - 1)
         IN  shorter \cup {Append(s, x) : s \in shorter, x \in S}

AverageOpts ==
    { Absent, Null, EmptyDict,
      Map([sentiment |-> Str("positive"), sentiment_score |-> Num(85)]),
      Map([sentiment |-> Null, sentiment_score |-> Null]) }

SentimentsOpts ==
    {Absent, Null} \cup {MkMap({<<"average", a>>}) : a \in AverageOpts}

EntryOpts(nameKey) ==
    { EmptyDict,
      Map([k \in {nameKey, "confidence_score"} |->
              IF k = nameKey THEN Str("billing") ELSE Num(90)]),
      Map([k \in {nameKey, "confidence_score"} |->
              IF k = nameKey THEN Str("refund") ELSE Null]) }

SegmentOpts(listKey, nameKey) ==
    {Null, EmptyDict}
    \cup {MkMap({<<listKey, l>>}) : l \in {Null, EmptyList}}
    \cup {MkMap({<<listKey, List(es)>>}) :
             es \in SeqsUpTo(EntryOpts(nameKey), MaxEntries) \ {<<>>}}

SectionOpts(listKey, nameKey, segments) ==
    {Absent, Null, EmptyDict}
    \cup {MkMap({<<"segments", s>>}) : s \in {Null, EmptyList}}
    \cup {MkMap({<<"segments", List(ss)>>}) :
             ss \in SeqsUpTo(SegmentOpts(listKey, nameKey), segments)
                    \ {<<>>}}

FullTopics ==
    Map([segments |-> List(<<Map([topics |-> List(<<
        Map([topic |-> Str("billing"), confidence_score |-> Num(90)])>>)])>>)])

FullIntents ==
    Map([segments |-> List(<<Map([intents |-> List(<<
        Map([intent |-> Str("refund"), confidence_score |-> Num(70)])>>)])>>)])

ResultsOf(s, tp, it) ==
    MkMap({<<"sentiments", s>>, <<"topics", tp>>, <<"intents", it>>})

\* The sections are extracted independently, so each is varied in full
\* against a few values of the other two; `segments` bounds the segments
\* of a section.
RawResponses(segments) ==
    { Map([k \in {} |-> Null]), Map([results |-> Null]),
      Map([results |-> EmptyDict]), Map([metadata |-> EmptyDict]) }
    \cup { Map([results |-> ResultsOf(s, tp, it)]) :
             s  \in SentimentsOpts,
             tp \in SectionOpts("topics", "topic", segments),
             it \in {Absent, FullIntents} }
    \cup { Map([results |-> ResultsOf(s, tp, it)]) :
             s  \in {Absent, MkMap({<<"average", Null>>})},
             tp \in {Absent, FullTopics},
             it \in SectionOpts("intents", "intent", segments) }

-----------------------------------------------------------------------------
(* Specification of the normalizer: apply it once to any raw response *)

IdleNorm   == resp_obj = Pending /\ normalized = Pending
IdleRender == analysis = Pending /\ top_n = 0 /\ narrative = Pending
IdlePipe   == request = Pending /\ remote_log = <<>> /\ outcome = Pending
IdleTTS    == cache = <<>> /\ last = Pending /\ seen = {} /\ ncalls = 0
IdlePage   ==
    /\ session_state = [analysis_results |-> Null, transcript |-> Null,
                        narrative |-> Null]
    /\ notice = Pending /\ nruns = 0

NormInit ==
    /\ resp_obj \in RawResponses(MaxSegments)
    /\ normalized = Pending
    /\ IdleRender /\ IdlePipe /\ IdleTTS /\ IdlePage

Normalize ==
    /\ normalized = Pending
    /\ normalized' = normalize_analyze(resp_obj)
    /\ UNCHANGED <<resp_obj, renderVars, pipeVars, ttsVars, pageVars>>

NormNext == Normalize

SpecNorm == NormInit /\ [][NormNext]_vars

-----------------------------------------------------------------------------
(* narrative_renderer.py *)

\* Jinja's Undefined: what t.score is when the entry has no such key.
Undefined == [t |-> "undefined"]

\* Truthiness as the template's `or` and `if` see it.
TmplFalsy(v) == v.t = "undefined" \/ Falsy(v)

\* {{ obj.name }}: attribute lookup falls back to the item of a dict.
Attr(obj, name) ==
    IF obj.t = "map" /\ name \in DOMAIN obj.m THEN obj.m[name] ELSE Undefined

\* "%.2f"|format(v or 0), for v counted in hundredths: the digits of the
\* text d.dd; only a number can be formatted with %f.
Fmt2(v) ==
    LET x == IF TmplFalsy(v) THEN Num(0) ELSE v
    IN  IF x.t = "num"
        THEN [t |-> "text",
              digits |-> <<x.n \div 100, (x.n % 100) \div 10, x.n % 10>>]
        ELSE Raised("TypeError")

\* a < b as sorted() evaluates it on two sort keys: numbers are ordered,
\* None (and Undefined) supports no ordering.
KeyLess(a, b) ==
    IF a.t = "num" /\ b.t = "num" THEN [t |-> "bool", b |-> a.n < b.n]
    ELSE Raised("TypeError")

\* One insertion of the stable descending sort: x goes after every element
\* whose key is not smaller than its own.
RECURSIVE InsertDesc(_, _, _)
InsertDesc(acc, x, attr) ==
    IF acc = <<>> THEN List(<<x>>)
    ELSE LET e    == acc[Len(acc)]
             less == KeyLess(Attr(e, attr), Attr(x, attr))
         IN  IF IsRaise(less) THEN less
             ELSE IF less.b
                  THEN LET front == InsertDesc(SubSeq(acc, 1, Len(acc) - 1),
                                               x, attr)
                       IN  IF IsRaise(front) THEN front
                           ELSE List(Append(front.l, e))
                  ELSE List(Append(acc, x))

RECURSIVE SortFrom(_, _, _)
SortFrom(acc, rest, attr) ==
    IF rest = <<>> THEN List(acc)
    ELSE LET step == InsertDesc(acc, Head(rest), attr)
         IN  IF IsRaise(step) THEN step
             ELSE SortFrom(step.l, Tail(rest), attr)

\* topics | sort(attribute=attr, reverse=True): Python's sorted(), which is
\* stable under reverse=True and makes no comparison on fewer than two items.
SortReverse(items, attr) == SortFrom(<<>>, items, attr)

\* The slice bound written in the template: [:5].
TopSlice == 5
\* The default of render_narrative's top_n parameter.
DefaultTopN == 5

Take(s, n) == SubSeq(s, 1, IF n < Len(s) THEN n ELSE Len(s))

\* {% for e in items %}- {{ e.<nameKey> }} (confidence {{ fmt }}){% endfor %}
RECURSIVE Bullets(_, _, _)
Bullets(items, kind, nameKey) ==
    IF items = <<>> THEN EmptyList
    ELSE LET conf == Fmt2(Attr(Head(items), "score"))
             rest == Bullets(Tail(items), kind, nameKey)
         IN  IF IsRaise(conf) THEN conf
             ELSE IF IsRaise(rest) THEN rest
             ELSE List(<<[line |-> kind,
                          name |-> Attr(Head(items), nameKey),
                          conf |-> conf]>> \o rest.l)

\* A slip of the header: the one-intent case given the plural phrasing.
IntentSection_AlwaysPlural(intents, ibullets) ==
    IF intents.l # <<>> /\ Len(intents.l) > 0
    THEN <<[line |-> "intent_header", plural |-> TRUE]>> \o ibullets.l
    ELSE <<[line |-> "no_intent"]>>

\* {% if intents and intents|length > 0 %} ... {% else %} ... {% endif %}:
\* the header, plural when intents|length > 1, then one bullet per intent
\* of the list as it stands.
IntentSection(intents, ibullets) ==
    IF intents.l # <<>> /\ Len(intents.l) > 0
    THEN <<[line |-> "intent_header", plural |-> Len(intents.l) > 1]>>
         \o ibullets.l
    ELSE <<[line |-> "no_intent"]>>

\* NARRATIVE_TMPL rendered with the given variables.  top_n is passed to
\* the template, which never reads it.
NARRATIVE_TMPL(sentiment, topics, intents, n) ==
    LET sconf      == Fmt2(Attr(sentiment, "score"))
        sorted     == SortReverse(topics.l, "score")
        top_topics == IF IsRaise(sorted) THEN sorted
                      ELSE List(Take(sorted.l, TopSlice))
        tbullets   == IF IsRaise(top_topics) THEN top_topics
                      ELSE Bullets(top_topics.l, "topic", "topic")
        ibullets   == Bullets(intents.l, "intent", "intent")
    IN  IF IsRaise(sconf) THEN sconf
        ELSE IF IsRaise(tbullets) THEN tbullets
        ELSE IF IsRaise(ibullets) THEN ibullets
        ELSE [t |-> "narrative",
              lines |->
                <<[line |-> "heading", text |-> "Polarity / Sentiment"],
                  [line |-> "sentiment",
                   name |-> Attr(sentiment, "label"), conf |-> sconf],
                  [line |-> "heading", text |-> "Topics"]>>
                \o (IF top_topics.l # <<>>
                    THEN <<[line |-> "topics_header"]>> \o tbullets.l
                    ELSE <<[line |-> "no_topics"]>>)
                \o <<[line |-> "heading", text |-> "Intent"]>>
                \o IntentSection(intents, ibullets)]

render_narrative(resp, n) ==
    LET sentiment == PyOr(PyGet(resp, "sentiment", Null),
                          Map([label |-> Str(""), score |-> Num(0)]))
        topics    == PyOr(PyGet(resp, "topics", Null), EmptyList)
        intents   == PyOr(PyGet(resp, "intents", Null), EmptyList)
    IN  IF IsRaise(sentiment) THEN sentiment
        ELSE NARRATIVE_TMPL(sentiment, topics, intents, n)

-----------------------------------------------------------------------------
(* Analysis records handed to the renderer *)

MaxTopics  == 6     \* topics in a record
MaxIntents == 2     \* intents in a record
MaxTopN    == 6     \* largest top_n tried

\* Entries are named by their position, so that every order is visible.
TopicNames  == <<"a", "b", "c", "d", "e", "f", "g", "h">>
IntentNames == <<"i1", "i2", "i3", "i4">>

ScoreOpts == {Null, Num(20), Num(90)}

TopicLists(n) ==
    { List([i \in 1..Len(ss) |->
              Map([topic |-> Str(TopicNames[i]), score |-> ss[i]])]) :
      ss \in SeqsUpTo(ScoreOpts, n) }

IntentLists(n) ==
    { List([i \in 1..Len(ss) |->
              Map([intent |-> Str(IntentNames[i]), score |-> ss[i]])]) :
      ss \in SeqsUpTo({Null, Num(70)}, n) }

SentimentRecs ==
    { Null, Map([label |-> Str("positive"), score |-> Num(85)]),
      Map([label |-> Str(""), score |-> Null]) }

OneIntent == List(<<Map([intent |-> Str("i1"), score |-> Num(70)])>>)
OneTopic  == List(<<Map([topic |-> Str("a"), score |-> Num(90)])>>)

\* The topic list is varied in full with top_n, the intent list and the
\* sentiment in full with a few topic lists.
RenderInputs(topics, intents, tops) ==
    { <<Map([sentiment |-> Map([label |-> Str("positive"),
                                 score |-> Num(85)]),
             topics |-> tl, intents |-> OneIntent]), n>> :
        tl \in TopicLists(topics) \cup {Null}, n \in 0..tops }
    \cup
    { <<Map([sentiment |-> s, topics |-> tl, intents |-> il]),
        DefaultTopN>> :
        s \in SentimentRecs, tl \in {Null, EmptyList, OneTopic},
        il \in IntentLists(intents) \cup {Null} }

RenderInit ==
    /\ \E inp \in RenderInputs(MaxTopics, MaxIntents, MaxTopN) :
          analysis = inp[1] /\ top_n = inp[2]
    /\ narrative = Pending
    /\ IdleNorm /\ IdlePipe /\ IdleTTS /\ IdlePage

Render ==
    /\ narrative = Pending
    /\ narrative' = render_narrative(analysis, top_n)
    /\ UNCHANGED <<analysis, top_n, normVars, pipeVars, ttsVars, pageVars>>

RenderNext == Render

SpecRender == RenderInit /\ [][RenderNext]_vars

-----------------------------------------------------------------------------
(* deepgram_processor.py: the pipeline *)

\* raise Kind(text): the text is kept as the sequence of its parts, so
\* that each wrapping prefix stays visible.
Exc(kind, text) == [t |-> "raise", e |-> kind, msg |-> text]

\* str(e)
ExcText(x) == IF "msg" \in DOMAIN x THEN x.msg ELSE <<x.e>>

\* What a function hands back: its return value (or the exception it
\* raised) and the remote exchanges it made, in order.
Done(ret, log) == [ret |-> ret, log |-> log]

\* A remote exchange: the request sent and the reply of the service.
Exchange(req, reply) == [req |-> req, reply |-> reply]

\* t_resp.results.channels[0].alternatives[0].transcript
TranscriptOf(t_resp) ==
    IF t_resp.channels = <<>> \/ t_resp.channels[1] = <<>>
    THEN Exc("IndexError", <<"list index out of range">>)
    ELSE t_resp.channels[1][1]

\* The body shared by the two transcribe methods, from the reply on:
\* extract the transcript, refuse an empty one, wrap every exception.
TranscribeTail(req, reply, hint) ==
    LET transcript == IF IsRaise(reply) THEN reply ELSE TranscriptOf(reply)
        checked    == IF IsRaise(transcript) THEN transcript
                      ELSE IF Falsy(transcript)
                           THEN Exc("RuntimeError", <<hint>>)
                           ELSE transcript
    IN  Done(IF IsRaise(checked)
             THEN Exc("Exception",
                      <<"Transcription failed: ">> \o ExcText(checked))
             ELSE checked,
             <<Exchange(req, reply)>>)

transcribe_audio_url_Unchecked(audio_url, model, reply) ==
    LET req == [api |-> "transcribe_url", url |-> audio_url,
                model |-> model, smart_format |-> TRUE]
        transcript == IF IsRaise(reply) THEN reply ELSE TranscriptOf(reply)
    IN  Done(IF IsRaise(transcript)
             THEN Exc("Exception",
                      <<"Transcription failed: ">> \o ExcText(transcript))
             ELSE transcript,
             <<Exchange(req, reply)>>)

transcribe_audio_url(audio_url, model, reply) ==
    TranscribeTail([api |-> "transcribe_url", url |-> audio_url,
                    model |-> model, smart_format |-> TRUE],
                   reply,
                   "Empty transcript. Check the audio URL, model, or credentials.")

\* audio_file.read() comes first: only a file object can be read.
transcribe_audio_file(audio_file, model, reply) ==
    IF audio_file.t # "file"
    THEN Done(Exc("Exception", <<"Transcription failed: ", "AttributeError">>),
              <<>>)
    ELSE TranscribeTail([api |-> "transcribe_file",
                         buffer |-> audio_file.bytes,
                         model |-> model, smart_format |-> TRUE],
                        reply,
                        "Empty transcript. Check the audio file, model, or credentials.")

\* The except clause of analyze_text around what the try block produced.
AnalyzeTail(res, log) ==
    Done(IF IsRaise(res)
         THEN Exc("Exception", <<"Analysis failed: ">> \o ExcText(res))
         ELSE res,
         log)

analyze_text(text, language, reply) ==
    AnalyzeTail(IF IsRaise(reply) THEN reply ELSE normalize_analyze(reply),
                <<Exchange([api |-> "analyze", buffer |-> text,
                            language |-> language, summarize |-> "v2",
                            sentiment |-> TRUE, intents |-> TRUE,
                            topics |-> TRUE],
                           reply)>>)

\* A slip of the kind the claims rule out: the transcript is handed back
\* although the analysis failed.
Assemble_Partial(tr, an) ==
    Done(Map([transcript |-> tr.ret,
              analysis   |-> IF IsRaise(an.ret) THEN Null ELSE an.ret]),
         tr.log \o an.log)

\* The end of a process_* method: the result dict when the analysis
\* returned, the wrapped exception when it raised.
Assemble(tr, an) ==
    IF IsRaise(an.ret)
    THEN Done(Exc("Exception", <<"Processing failed: ">> \o ExcText(an.ret)),
              tr.log \o an.log)
    ELSE Done(Map([transcript |-> tr.ret, analysis |-> an.ret]),
              tr.log \o an.log)

\* Steps 1 and 2 of process_audio_url / process_audio_file, given the
\* outcome of the transcription step.
ThenAnalyze(tr, language, areply) ==
    IF IsRaise(tr.ret)
    THEN Done(Exc("Exception", <<"Processing failed: ">> \o ExcText(tr.ret)),
              tr.log)
    ELSE Assemble(tr, analyze_text(tr.ret, language, areply))

process_audio_url(audio_url, model, language, treply, areply) ==
    ThenAnalyze(transcribe_audio_url(audio_url, model, treply),
                language, areply)

process_audio_file(audio_file, model, language, treply, areply) ==
    ThenAnalyze(transcribe_audio_file(audio_file, model, treply),
                language, areply)

\* The text is the transcript as given; no transcription step runs.
process_text(text, language, areply) ==
    Assemble(Done(text, <<>>), analyze_text(text, language, areply))

InvalidInputType ==
    Exc("ValueError", <<"Invalid input_type. Must be 'url', 'file', or 'text'">>)

\* Slips of the dispatch: text routed through the transcription path, and
\* an unknown kind treated as text.
process_input_TextAsUrl(input_type, input_data, model, language, treply, areply) ==
    IF input_type \in {"url", "text"}
    THEN process_audio_url(input_data, model, language, treply, areply)
    ELSE IF input_type = "file"
    THEN process_audio_file(input_data, model, language, treply, areply)
    ELSE Done(InvalidInputType, <<>>)

process_input_DefaultText(input_type, input_data, model, language, treply, areply) ==
    IF input_type = "url"
    THEN process_audio_url(input_data, model, language, treply, areply)
    ELSE IF input_type = "file"
    THEN process_audio_file(input_data, model, language, treply, areply)
    ELSE process_text(input_data, language, areply)

\* treply and areply are what the remote service would answer to the
\* transcription and to the analysis request, were they sent.
process_input(input_type, input_data, model, language, treply, areply) ==
    IF input_type = "url"
    THEN process_audio_url(input_data, model, language, treply, areply)
    ELSE IF input_type = "file"
    THEN process_audio_file(input_data, model, language, treply, areply)
    ELSE IF input_type = "text"
    THEN process_text(input_data, language, areply)
    ELSE Done(InvalidInputType, <<>>)

-----------------------------------------------------------------------------
(* The callers and the remote service of the pipeline *)

InputTypes == {"url", "file", "text", "stream"}

AudioFile == [t |-> "file", bytes |-> "RIFF"]

InputData(input_type) ==
    IF input_type = "url" THEN {Str("https://dpgr.am/spacewalk.wav")}
    ELSE IF input_type = "file" THEN {AudioFile}
    ELSE IF input_type = "text"
         THEN {Str(""), Str("I love this product"), Str(" ok ")}
    ELSE {Str("I love this product"), AudioFile}

Models    == {"nova-3-general", "nova-2"}
Languages == {"en", "en-GB"}

\* A transcription response with the given transcript.
TranscriptReply(v) == [t |-> "resp", channels |-> <<<<v>>>>]

TranscribeReplies ==
    { TranscriptReply(Str("Houston, we have a problem")),
      TranscriptReply(Str("")), TranscriptReply(Null),
      [t |-> "resp", channels |-> <<>>],
      Exc("DeepgramApiError", <<"401 Unauthorized">>) }

AnalyzeReplies ==
    { SdkObject(Map([results |-> ResultsOf(
          Map([average |-> Map([sentiment |-> Str("positive"),
                                sentiment_score |-> Num(85)])]),
          FullTopics, FullIntents)])),
      SdkObject(Map([k \in {} |-> Null])),
      SdkObject(Map([results |-> Null])),
      Exc("DeepgramApiError", <<"503 Service Unavailable">>) }

PipeInit ==
    /\ request = Pending /\ remote_log = <<>> /\ outcome = Pending
    /\ IdleNorm /\ IdleRender /\ IdleTTS /\ IdlePage

\* One call of process_input, from its arguments to its return or raise.
ProcessInput(input_type, input_data, model, language) ==
    \E treply \in TranscribeReplies, areply \in AnalyzeReplies :
        LET r == process_input(input_type, input_data, model, language,
                               treply, areply)
        IN  /\ request' = [input_type |-> input_type,
                           input_data |-> input_data,
                           model |-> model, language |-> language]
            /\ remote_log' = r.log
            /\ outcome' = r.ret
            /\ UNCHANGED <<normVars, renderVars, ttsVars, pageVars>>

\* The calls made: each input kind with the data a caller hands it.
PipeCalls ==
    UNION { {<<k, data>> : data \in InputData(k)} : k \in InputTypes }

PipeNext ==
    \E c \in PipeCalls, m \in Models, l \in Languages :
        ProcessInput(c[1], c[2], m, l)

SpecPipe == PipeInit /\ [][PipeNext]_vars

-----------------------------------------------------------------------------
(* Text of any length.  A str is kept as its runs of equal characters,    *)
(* <<[c |-> "x", n |-> 100], [c |-> "a", n |-> 1]>> being 100 x's and an  *)
(* a, with no empty run and no two neighbouring runs of one character,    *)
(* so that equal strings are equal values and the lengths the code        *)
(* compares against (50, 100, 200, 500, 1000) are the real ones.          *)

\* a + b: the last run of a and the first of b join when they are of one
\* character.
TCat(a, b) ==
    IF a = <<>> THEN b
    ELSE IF b = <<>> THEN a
    ELSE IF a[Len(a)].c = b[1].c
         THEN Append(SubSeq(a, 1, Len(a) - 1),
                     [c |-> b[1].c, n |-> a[Len(a)].n + b[1].n])
              \o Tail(b)
         ELSE a \o b

\* c * n
Rep(c, n) == IF n > 0 THEN <<[c |-> c, n |-> n]>> ELSE <<>>

\* The str spelled by a sequence of characters.
RECURSIVE Lit(_)
Lit(chars) ==
    IF chars = <<>> THEN <<>>
    ELSE TCat(Lit(SubSeq(chars, 1, Len(chars) - 1)),
              Rep(chars[Len(chars)], 1))

\* len(s)
RECURSIVE TLen(_)
TLen(s) == IF s = <<>> THEN 0 ELSE s[1].n + TLen(Tail(s))

\* s[:k]
RECURSIVE TTake(_, _)
TTake(s, k) ==
    IF k <= 0 \/ s = <<>> THEN <<>>
    ELSE IF s[1].n >= k THEN <<[c |-> s[1].c, n |-> k]>>
    ELSE <<s[1]>> \o TTake(Tail(s), k - s[1].n)

\* not s.strip(): nothing but white space.
IsBlank(s) == \A i \in 1..Len(s) : s[i].c = " "

-----------------------------------------------------------------------------
(* tts_processor.py *)

\* The keys of get_available_voices().
get_available_voices ==
    { Lit(<<"t", "h", "a", "l", "i", "a">>),
      Lit(<<"z", "e", "u", "s">>),
      Lit(<<"a", "s", "t", "e", "r", "i", "a">>),
      Lit(<<"o", "d", "y", "s", "s", "e", "u", "s">>),
      Lit(<<"a", "r", "c", "a", "s">>),
      Lit(<<"a", "n", "d", "r", "o", "m", "e", "d", "a">>) }

GenerateMaxLength == 1000   \* generate_speech: max_length
FastMaxLength     == 500    \* speak_text_fast: max_length
InstantMaxLength  == 200    \* speak_text_instant: max_length
FastKeyPrefix     == 100    \* speak_text_fast: text[:100]
InstantKeyPrefix  == 50     \* speak_text_instant: text[:50]
PostTimeout       == 30     \* session.post(..., timeout=30)

Ellipsis == Rep(".", 3)

\* if len(text) > max_length: text = text[:max_length] + "..."
Truncate(text, max_length) ==
    IF TLen(text) > max_length
    THEN TCat(TTake(text, max_length), Ellipsis)
    ELSE text

\* hashlib.md5(s.encode()).hexdigest(), taken to be free of collisions:
\* two keys are equal exactly when the hashed strings are.
Md5(s) == [md5 |-> s]

\* A slip of the kind the claims rule out: the voice left out of the key.
CacheKey_NoVoice(text, voice, language, prefix) ==
    Md5(TCat(TCat(TTake(text, prefix), Lit(<<"_">>)), language))

\* Another: the key taken from the whole text instead of its prefix.
CacheKey_FullText(text, voice, language, prefix) ==
    Md5(TCat(TCat(TCat(TCat(text, Lit(<<"_">>)), voice),
                  Lit(<<"_">>)), language))

\* f"{text[:prefix]}_{voice}_{language}", hashed.
CacheKey(text, voice, language, prefix) ==
    Md5(TCat(TCat(TCat(TCat(TTake(text, prefix), Lit(<<"_">>)), voice),
                  Lit(<<"_">>)), language))

\* f"aura-2-{voice}-{language}"
ModelName(voice, language) ==
    TCat(TCat(TCat(Lit(<<"a", "u", "r", "a", "-", "2", "-">>), voice),
              Lit(<<"-">>)), language)

\* response.content of a successful post: the audio of that request.
AudioOf(req) == [t |-> "bytes", model |-> req.model, text |-> req.text]

\* ok: whether the remote service answers the post with a 2xx in time.
generate_speech(text, voice, language, ok) ==
    LET req == [api |-> "speak", model |-> ModelName(voice, language),
                text |-> Truncate(text, GenerateMaxLength),
                timeout |-> PostTimeout]
        reply == IF ok THEN AudioOf(req)
                 ELSE Exc("HTTPError", <<"post failed or timed out">>)
    IN  Done(IF IsRaise(reply)
             THEN Exc("Exception",
                      <<"TTS generation failed: ">> \o ExcText(reply))
             ELSE reply,
             <<Exchange(req, reply)>>)

\* base64 of the bytes, inside an <audio> element.
create_audio_player(audio_bytes) ==
    [t |-> "html", tag |-> "audio", src_base64 |-> audio_bytes]

speak_text(text, voice, language, ok) ==
    LET g == generate_speech(text, voice, language, ok)
    IN  Done(IF IsRaise(g.ret)
             THEN Exc("Exception",
                      <<"Speech generation failed: ">> \o ExcText(g.ret))
             ELSE create_audio_player(g.ret),
             g.log)

\* self.cache[key] = value
Store(c, key, value) ==
    [k \in DOMAIN c \cup {key} |-> IF k = key THEN value ELSE c[k]]

\* A slip of the kind the claims rule out: the failure is stored under
\* the key, as if it were a player.
SpeakCached_StoreOnFailure(c, text, voice, language, ok, prefix, max_length, label) ==
    LET cache_key == CacheKey(text, voice, language, prefix)
    IN  IF cache_key \in DOMAIN c
        THEN [ret |-> c[cache_key], log |-> <<>>, cache |-> c]
        ELSE LET g == generate_speech(Truncate(text, max_length),
                                      voice, language, ok)
             IN  IF IsRaise(g.ret)
                 THEN [ret |-> Exc("Exception", <<label>> \o ExcText(g.ret)),
                       log |-> g.log, cache |-> Store(c, cache_key, Null)]
                 ELSE [ret |-> create_audio_player(g.ret), log |-> g.log,
                       cache |-> Store(c, cache_key,
                                       create_audio_player(g.ret))]

\* The body shared by speak_text_fast and speak_text_instant, which differ
\* in the key prefix, the truncation ceiling and the error label.  Hands
\* back the cache as the call leaves it.
SpeakCached(c, text, voice, language, ok, prefix, max_length, label) ==
    LET cache_key == CacheKey(text, voice, language, prefix)
    IN  IF cache_key \in DOMAIN c
        THEN [ret |-> c[cache_key], log |-> <<>>, cache |-> c]
        ELSE LET g == generate_speech(Truncate(text, max_length),
                                      voice, language, ok)
             IN  IF IsRaise(g.ret)
                 THEN [ret |-> Exc("Exception", <<label>> \o ExcText(g.ret)),
                       log |-> g.log, cache |-> c]
                 ELSE [ret |-> create_audio_player(g.ret), log |-> g.log,
                       cache |-> Store(c, cache_key,
                                       create_audio_player(g.ret))]

speak_text_fast(c, text, voice, language, ok) ==
    SpeakCached(c, text, voice, language, ok, FastKeyPrefix, FastMaxLength,
                "Fast speech generation failed: ")

speak_text_instant(c, text, voice, language, ok) ==
    SpeakCached(c, text, voice, language, ok, InstantKeyPrefix,
                InstantMaxLength, "Instant speech generation failed: ")

\* What create_tts_player shows in the page.
Shown(kind, what) == [t |-> "ui", kind |-> kind, what |-> what]

\* The processor it creates is its own: a fresh cache, which speak_text
\* does not use.
create_tts_player(text, voice, language, ok) ==
    IF IsBlank(text)
    THEN Done(Shown("warning", "No text available for speech synthesis."),
              <<>>)
    ELSE IF voice \notin get_available_voices
    THEN Done(Shown("error", "Invalid voice persona"), <<>>)
    ELSE LET r == speak_text(text, voice, language, ok)
         IN  Done(IF IsRaise(r.ret)
                  THEN Shown("error", "Failed to generate speech")
                  ELSE Shown("markdown", r.ret),
                  r.log)

-----------------------------------------------------------------------------
(* The callers of the TTS processor and the remote service *)

MaxCalls == 2      \* synthesis calls in a run

Zeus        == Lit(<<"z", "e", "u", "s">>)
Nonexistent == Lit(<<"n", "o", "n", "e", "x", "i", "s", "t", "e", "n", "t">>)
XZeus       == Lit(<<"x", "_", "z", "e", "u", "s">>)
En          == Lit(<<"e", "n">>)
EnGB        == Lit(<<"e", "n", "-", "G", "B">>)

Hi      == Lit(<<"h", "i">>)
HiX     == Lit(<<"h", "i", "_", "x">>)
Blank   == Rep(" ", 2)
LongA   == TCat(Rep("x", FastKeyPrefix), Lit(<<"a">>))
LongB   == TCat(Rep("x", FastKeyPrefix), Lit(<<"b">>))
Longest == Rep("x", GenerateMaxLength + 1)

\* The cached methods with every text, voice and language, and with the
\* two calls whose key strings meet at an underscore; the uncached ones
\* and the page helper with the shortest and the longest text.
TTSCalls ==
    { [call |-> c, text |-> tx, voice |-> v, language |-> l] :
        c \in {"speak_text_fast", "speak_text_instant"},
        tx \in {Hi, LongA, LongB, Longest},
        v \in {Zeus, Nonexistent}, l \in {En, EnGB} }
    \cup { [call |-> "speak_text_fast", text |-> Hi, voice |-> XZeus,
            language |-> En],
           [call |-> "speak_text_fast", text |-> HiX, voice |-> Zeus,
            language |-> En] }
    \cup { [call |-> c, text |-> tx, voice |-> v, language |-> En] :
           c \in {"speak_text", "generate_speech"},
           tx \in {Hi, Longest}, v \in {Zeus, Nonexistent} }
    \cup { [call |-> "create_tts_player", text |-> tx, voice |-> v,
            language |-> En] :
           tx \in {Hi, Blank}, v \in {Zeus, Nonexistent} }

TTSInit ==
    /\ cache = <<>> /\ last = Pending /\ seen = {} /\ ncalls = 0
    /\ IdleNorm /\ IdleRender /\ IdlePipe /\ IdlePage

\* The call recorded: its arguments, what it handed back, its posts.
CallRecord(a, ret, log) ==
    [call |-> a.call, text |-> a.text, voice |-> a.voice,
     language |-> a.language, ret |-> ret, log |-> log]

Called(a) ==
    /\ ncalls < MaxCalls
    /\ ncalls' = ncalls + 1
    /\ seen' = seen \cup {<<a.voice, a.language>>}
    /\ UNCHANGED <<normVars, renderVars, pipeVars, pageVars>>

SpeakText(a) ==
    /\ a.call = "speak_text"
    /\ Called(a)
    /\ \E ok \in BOOLEAN :
          LET r == speak_text(a.text, a.voice, a.language, ok)
          IN  last' = CallRecord(a, r.ret, r.log)
    /\ UNCHANGED cache

GenerateSpeech(a) ==
    /\ a.call = "generate_speech"
    /\ Called(a)
    /\ \E ok \in BOOLEAN :
          LET r == generate_speech(a.text, a.voice, a.language, ok)
          IN  last' = CallRecord(a, r.ret, r.log)
    /\ UNCHANGED cache

SpeakTextFast(a) ==
    /\ a.call = "speak_text_fast"
    /\ Called(a)
    /\ \E ok \in BOOLEAN :
          LET r == speak_text_fast(cache, a.text, a.voice, a.language, ok)
          IN  /\ last' = CallRecord(a, r.ret, r.log)
              /\ cache' = r.cache

SpeakTextInstant(a) ==
    /\ a.call = "speak_text_instant"
    /\ Called(a)
    /\ \E ok \in BOOLEAN :
          LET r == speak_text_instant(cache, a.text, a.voice, a.language, ok)
          IN  /\ last' = CallRecord(a, r.ret, r.log)
              /\ cache' = r.cache

CreateTtsPlayer(a) ==
    /\ a.call = "create_tts_player"
    /\ Called(a)
    /\ \E ok \in BOOLEAN :
          LET r == create_tts_player(a.text, a.voice, a.language, ok)
          IN  last' = CallRecord(a, r.ret, r.log)
    /\ UNCHANGED cache

TTSNext ==
    \E a \in TTSCalls :
        \/ SpeakText(a)
        \/ GenerateSpeech(a)
        \/ SpeakTextFast(a)
        \/ SpeakTextInstant(a)
        \/ CreateTtsPlayer(a)

SpecTTS == TTSInit /\ [][TTSNext]_vars

-----------------------------------------------------------------------------
(* streamlit_demo.py: the Analyze button of the page *)

\* st.error / st.warning / st.success of the handler.
Notice(kind, text) == [kind |-> kind, text |-> text]

\* A finished run of the handler: the session state it leaves and what it
\* showed.
Ran(ss, shown) == [ss |-> ss, notice |-> shown]

\* text_input.strip() / url_input.strip(): the strings of whitespace only.
Whitespace == {"", " ", "  "}
Stripped(v) == IF v.s \in Whitespace THEN Str("") ELSE v

\* The if / elif chain that picks the input: only the widget of the
\* selected method exists and is read.
SelectInput(input_method, widget) ==
    IF input_method = "Audio File Upload" /\ widget # Null
    THEN [has_input |-> TRUE, input_type |-> "file", input_data |-> widget]
    ELSE IF input_method = "Text Input" /\ ~Falsy(Stripped(widget))
    THEN [has_input |-> TRUE, input_type |-> "text", input_data |-> widget]
    ELSE IF input_method = "URL Input" /\ ~Falsy(Stripped(widget))
    THEN [has_input |-> TRUE, input_type |-> "url", input_data |-> widget]
    ELSE [has_input |-> FALSE, input_type |-> Null, input_data |-> Null]

\* st.session_state.narrative = render_narrative(result["analysis"]), the
\* last of the three stores, and the except clause around it.
StoreNarrative(ss, rendered) ==
    IF IsRaise(rendered)
    THEN Ran(ss, Notice("error", <<"Error during processing: ">>
                                   \o ExcText(rendered)))
    ELSE Ran([ss EXCEPT !.narrative = rendered],
             Notice("success", <<"Analysis completed!">>))

\* The try block from the return of process_input on: the first two
\* stores, then the rendering.
StoreResults(ss, result) ==
    IF IsRaise(result)
    THEN Ran(ss, Notice("error", <<"Error during processing: ">>
                                   \o ExcText(result)))
    ELSE StoreNarrative([ss EXCEPT !.analysis_results = result,
                                   !.transcript = result.m.transcript],
                        render_narrative(result.m.analysis, DefaultTopN))

\* `if analyze_button:` with the input picked; api_key is os.getenv's
\* answer, Null when the variable is not set.
AnalyzeHandler(ss, picked, model, language, api_key, treply, areply) ==
    IF ~picked.has_input
    THEN Ran(ss, Notice("warning", <<"Please provide input">>))
    ELSE IF Falsy(api_key)
    THEN Ran(ss, Notice("error", <<"DEEPGRAM_API_KEY not found">>))
    ELSE StoreResults(ss, process_input(picked.input_type, picked.input_data,
                                        model, language, treply, areply).ret)

-----------------------------------------------------------------------------
(* The user of the page, the environment and the remote service *)

MaxRuns == 2       \* Analyze clicks in a session

\* The selected input method with the value of its widget.
PageForms ==
    { [input_method |-> "URL Input", widget |-> w] :
        w \in {Str(""), Str("https://dpgr.am/spacewalk.wav")} }
    \cup { [input_method |-> "Text Input", widget |-> w] :
        w \in {Str(""), Str("  "), Str("I love this product"),
               Str(" ok ")} }
    \cup { [input_method |-> "Audio File Upload", widget |-> w] :
        w \in {Null, AudioFile} }

ApiKeys == {Null, Str("dg-key")}

\* An analysis with two topics, the second without a confidence score.
TwoTopics ==
    Map([segments |-> List(<<Map([topics |-> List(<<
        Map([topic |-> Str("billing"), confidence_score |-> Num(90)]),
        Map([topic |-> Str("refund")])>>)])>>)])

PageAnalyzeReplies ==
    AnalyzeReplies
    \cup { SdkObject(Map([results |-> ResultsOf(Absent, TwoTopics,
                                                FullIntents)])),
           SdkObject(Map([results |-> ResultsOf(Absent, FullTopics,
                                                Absent)])) }

\* Lines 47-52: the three fields start as None.
PageInit ==
    /\ session_state = [analysis_results |-> Null, transcript |-> Null,
                        narrative |-> Null]
    /\ notice = Pending /\ nruns = 0
    /\ IdleNorm /\ IdleRender /\ IdlePipe /\ IdleTTS

\* One click on Analyze, from the click to the end of the handler.
Analyze ==
    /\ nruns < MaxRuns
    /\ nruns' = nruns + 1
    /\ UNCHANGED <<normVars, renderVars, pipeVars, ttsVars>>
    /\ \E form \in PageForms, model \in Models, language \in Languages,
          api_key \in ApiKeys,
          treply \in TranscribeReplies, areply \in PageAnalyzeReplies :
          LET r == AnalyzeHandler(session_state,
                                  SelectInput(form.input_method, form.widget),
                                  model, language, api_key, treply, areply)
          IN  /\ session_state' = r.ss
              /\ notice' = r.notice

PageNext == Analyze

SpecPage == PageInit /\ [][PageNext]_vars

-----------------------------------------------------------------------------
(* Claims about the normalizer and the renderer *)

\* C1: for every mapping-like raw analysis response, however malformed or
\* partial (any branch missing, empty or null at any depth),
\* normalize_analyze never raises and returns a record whose three keys
\* sentiment, topics and intents are present and not null.
C1_NormalizeNeverRaises ==
    normalized # Pending =>
        /\ ~IsRaise(normalized)
        /\ normalized.t = "map"
        /\ {"sentiment", "topics", "intents"} \subseteq DOMAIN normalized.m
        /\ \A k \in {"sentiment", "topics", "intents"} :
               normalized.m[k] # Null

\* The topics of the record handed to the renderer (none when null).
TopicsIn(resp) ==
    IF resp.m.topics.t = "list" THEN resp.m.topics.l ELSE <<>>

ScoreOrZero(e) == IF e.m.score.t = "num" THEN e.m.score.n ELSE 0

\* The ranking the specification describes: descending by score, a null
\* score counting as zero, entries of equal score in their original order.
RankBefore(ts, i, j) ==
    \/ ScoreOrZero(ts[i]) > ScoreOrZero(ts[j])
    \/ ScoreOrZero(ts[i]) = ScoreOrZero(ts[j]) /\ i < j

Ranked(ts) ==
    [k \in 1..Len(ts) |->
        ts[CHOOSE i \in 1..Len(ts) :
              Cardinality({j \in 1..Len(ts) : RankBefore(ts, j, i)}) = k - 1]]

BulletFor(e) ==
    [line |-> "topic", name |-> e.m.topic,
     conf |-> [t |-> "text",
               digits |-> <<ScoreOrZero(e) \div 100,
                            (ScoreOrZero(e) % 100) \div 10,
                            ScoreOrZero(e) % 10>>]]

BulletsFor(ts) == [k \in 1..Len(ts) |-> BulletFor(ts[k])]

IsTopicLine(l) == l.line = "topic"
TopicBullets(n) == SelectSeq(n.lines, IsTopicLine)

IsPrefix(s, u) == Len(s) <= Len(u) /\ s = SubSeq(u, 1, Len(s))

\* C2: render_narrative lists the topics in descending score order, by a
\* stable sort in which a null score ranks as zero and prints as 0.00; so
\* rendering succeeds and its topic bullets are the head of that ranking.
C2_NullScoreRanksAsZero ==
    narrative # Pending =>
        /\ ~IsRaise(narrative)
        /\ IsPrefix(TopicBullets(narrative),
                    BulletsFor(Ranked(TopicsIn(analysis))))

Min(a, b) == IF a < b THEN a ELSE b

HasLine(n, kind) == \E k \in 1..Len(n.lines) : n.lines[k].line = kind

\* C3: for every record and every top_n >= 0, a narrative that is rendered
\* has exactly min(top_n, number of topics) topic bullets, the first top_n
\* of the ranking, and has the "No significant topics" sentence exactly
\* when that truncated list is empty.  (Stated for the renderings that
\* return, so that it is judged apart from C2.)
C3_TopNBulletsEmitted ==
    (narrative # Pending /\ ~IsRaise(narrative)) =>
        LET want == Take(BulletsFor(Ranked(TopicsIn(analysis))), top_n)
        IN  /\ Len(TopicBullets(narrative))
                 = Min(top_n, Len(TopicsIn(analysis)))
            /\ TopicBullets(narrative) = want
            /\ HasLine(narrative, "no_topics") <=> (want = <<>>)

-----------------------------------------------------------------------------
(* Claims about the pipeline *)

IsResult(o) == o.t = "map"

KnownKinds == {"url", "file", "text"}

IsTranscribe(x) == x.req.api \in {"transcribe_url", "transcribe_file"}
IsAnalyze(x)    == x.req.api = "analyze"

Parts(msg) == {msg[i] : i \in 1..Len(msg)}

\* The service answered the transcription request with a response.
TranscriptionReplied ==
    /\ remote_log # <<>>
    /\ IsTranscribe(remote_log[1])
    /\ ~IsRaise(remote_log[1].reply)

\* ... whose transcript is there but empty.
TranscriptCameEmpty ==
    /\ TranscriptionReplied
    /\ ~IsRaise(TranscriptOf(remote_log[1].reply))
    /\ Falsy(TranscriptOf(remote_log[1].reply))

TranscriptionSucceeded ==
    /\ TranscriptionReplied
    /\ ~IsRaise(TranscriptOf(remote_log[1].reply))
    /\ ~Falsy(TranscriptOf(remote_log[1].reply))

\* The analysis stage: the remote call and the normalization of its reply.
AnalysisSucceeded ==
    /\ remote_log # <<>>
    /\ IsAnalyze(remote_log[Len(remote_log)])
    /\ ~IsRaise(remote_log[Len(remote_log)].reply)
    /\ ~IsRaise(normalize_analyze(remote_log[Len(remote_log)].reply))

AllStagesSucceeded ==
    /\ request.input_type \in {"url", "file"} => TranscriptionSucceeded
    /\ AnalysisSucceeded

\* The label of the stage that failed, and the message of the remote
\* error when the failure was one.
FailedStageLabel ==
    IF request.input_type \in {"url", "file"} /\ ~TranscriptionSucceeded
    THEN "Transcription failed: " ELSE "Analysis failed: "

FailedExchange ==
    IF request.input_type \in {"url", "file"} /\ ~TranscriptionSucceeded
    THEN remote_log[1] ELSE remote_log[Len(remote_log)]

\* C6: for every input kind, process_input returns a ProcessingResult only
\* when every stage of that path succeeded; when a stage fails nothing is
\* returned, not even the transcript alone, and the caller gets one
\* processing error whose message carries the failing stage's label and
\* the original message.
C6_ResultOnlyOnFullSuccess ==
    (outcome # Pending /\ request.input_type \in KnownKinds) =>
        /\ IsResult(outcome) => AllStagesSucceeded
        /\ ~AllStagesSucceeded =>
              /\ IsRaise(outcome)
              /\ Len(outcome.msg) >= 3
              /\ outcome.msg[1] = "Processing failed: "
              /\ outcome.msg[2] = FailedStageLabel
              /\ IsRaise(FailedExchange.reply) =>
                     outcome.msg = <<"Processing failed: ", FailedStageLabel>>
                                   \o FailedExchange.reply.msg

\* C6's case: the transcript was obtained, the analysis call failed, and
\* the call raised.
C6_Witness ==
    /\ outcome # Pending
    /\ request.input_type = "url"
    /\ TranscriptionSucceeded
    /\ Len(remote_log) = 2
    /\ IsRaise(remote_log[2].reply)
    /\ IsRaise(outcome)

DiagnosticHints ==
    { "Empty transcript. Check the audio URL, model, or credentials.",
      "Empty transcript. Check the audio file, model, or credentials." }

\* C7: in the url and file paths, a transcription that succeeds remotely
\* with an empty transcript stops the pipeline with a transcription-stage
\* error carrying the diagnostic hint, and no analysis request is sent.
C7_EmptyTranscriptStops ==
    (outcome # Pending /\ request.input_type \in {"url", "file"}
        /\ TranscriptCameEmpty) =>
        /\ IsRaise(outcome)
        /\ "Transcription failed: " \in Parts(outcome.msg)
        /\ Parts(outcome.msg) \cap DiagnosticHints # {}
        /\ \A i \in 1..Len(remote_log) : ~IsAnalyze(remote_log[i])

C7_Witness ==
    /\ outcome # Pending
    /\ request.input_type = "file"
    /\ TranscriptCameEmpty
    /\ IsRaise(outcome)

\* C8: for input kind text, process_input sends no transcription request,
\* sends the text unchanged as the analysis input, and on success returns
\* the text verbatim as the transcript with the normalized analysis.
C8_TextSkipsTranscription ==
    (outcome # Pending /\ request.input_type = "text") =>
        /\ Len(remote_log) = 1
        /\ IsAnalyze(remote_log[1])
        /\ remote_log[1].req.buffer = request.input_data
        /\ remote_log[1].req.language = request.language
        /\ AnalysisSucceeded <=> IsResult(outcome)
        /\ IsResult(outcome) =>
              /\ outcome.m.transcript = request.input_data
              /\ outcome.m.analysis = normalize_analyze(remote_log[1].reply)

C8_Witness ==
    /\ outcome # Pending
    /\ request.input_type = "text"
    /\ request.input_data = Str(" ok ")
    /\ IsResult(outcome)

\* C9: every ProcessingResult returned by process_input, for any input
\* kind, has a non-empty transcript.
C9_TranscriptNonEmpty ==
    IsResult(outcome) =>
        /\ outcome.m.transcript.t = "str"
        /\ outcome.m.transcript.s # ""

\* C10: process_input called with an input kind other than url, file or
\* text raises a validation error and issues no remote request.
C10_UnknownKindRejected ==
    (outcome # Pending /\ request.input_type \notin KnownKinds) =>
        /\ IsRaise(outcome)
        /\ outcome.e = "ValueError"
        /\ remote_log = <<>>

C10_Witness ==
    /\ outcome # Pending
    /\ request.input_type = "stream"
    /\ IsRaise(outcome)

-----------------------------------------------------------------------------
(* Claims about the TTS processor *)

SameCall(r1, r2) ==
    /\ r1.call = r2.call
    /\ r1.text = r2.text
    /\ r1.voice = r2.voice
    /\ r1.language = r2.language

Tiers == {"speak_text", "speak_text_fast", "speak_text_instant"}

NoUnderscore(s) == \A i \in 1..Len(s) : s[i].c # "_"

\* C4 as claimed: on one processor, for any of the synthesis tiers, two
\* successive calls with identical (text, voice, language) make only one
\* remote request in total, the second being a cache hit that returns the
\* stored artifact; and a call whose voice or language differs from every
\* earlier call always misses the cache and makes a remote request.
C4_AnyTierSecondCallHits ==
    [][ (ncalls' = ncalls + 1 /\ last'.call \in Tiers) =>
          /\ (last # Pending /\ SameCall(last, last')) =>
                 /\ Len(last.log) + Len(last'.log) <= 1
                 /\ last'.log = <<>>
                 /\ last'.ret = last.ret
          /\ <<last'.voice, last'.language>> \notin seen =>
                 Len(last'.log) = 1 ]_vars

\* C4 as the code has it: the cached tiers are speak_text_fast and
\* speak_text_instant.  There, a call repeating the arguments of the call
\* before it, which returned, makes no remote request and returns what that
\* call returned, at most one request having been made by the two; and
\* while no voice or language holds the key separator "_", a call whose
\* voice or language differs from every earlier call misses the cache and
\* makes one remote request.  speak_text keeps no cache: every call of it
\* makes one remote request.
C4_CachedTiersSecondCallHits ==
    [][ (ncalls' = ncalls + 1) =>
          /\ last'.call \in {"speak_text_fast", "speak_text_instant"} =>
                /\ (last # Pending /\ SameCall(last, last')
                       /\ ~IsRaise(last.ret)) =>
                       /\ Len(last.log) <= 1
                       /\ last'.log = <<>>
                       /\ last'.ret = last.ret
                /\ (/\ <<last'.voice, last'.language>> \notin seen
                    /\ \A p \in seen \cup {<<last'.voice, last'.language>>} :
                          NoUnderscore(p[1]) /\ NoUnderscore(p[2])) =>
                       Len(last'.log) = 1
          /\ last'.call = "speak_text" => Len(last'.log) = 1 ]_vars

\* C4's case: the second of two calls on the processor was answered from
\* the cache, with no request sent.
C4_Witness ==
    /\ ncalls = 2
    /\ last # Pending
    /\ last.call \in {"speak_text_fast", "speak_text_instant"}
    /\ last.log = <<>>
    /\ ~IsRaise(last.ret)
    /\ DOMAIN cache # {}

\* C5: every synthesis entry point rejects a voice persona outside the
\* six-entry set with a validation error before any remote request is
\* issued: no call with an unrecognised voice reaches the HTTP post.
C5_UnknownVoiceRejected ==
    (last # Pending /\ last.voice \notin get_available_voices) =>
        /\ last.log = <<>>
        /\ \/ IsRaise(last.ret)
           \/ last.ret.t = "ui" /\ last.ret.kind = "error"

-----------------------------------------------------------------------------
(* Claims about the types of the normalized record *)

IsStr(v)       == v.t = "str"
IsNumOrNull(v) == v.t \in {"num", "null"}

\* Every entry of the list is {nameKey: string, score: number or null}.
EntriesTyped(list, nameKey) ==
    /\ list.t = "list"
    /\ \A i \in 1..Len(list.l) :
          /\ list.l[i].t = "map"
          /\ DOMAIN list.l[i].m = {nameKey, "score"}
          /\ IsStr(list.l[i].m[nameKey])
          /\ IsNumOrNull(list.l[i].m["score"])

\* C12: every record normalize_analyze returns is fully populated with
\* correct types: sentiment.label a string, sentiment.score a number or
\* null, every topics entry a string topic and a number-or-null score,
\* every intents entry a string intent and a number-or-null score.
C12_RecordFullyTyped ==
    (normalized # Pending /\ ~IsRaise(normalized)) =>
        /\ normalized.t = "map"
        /\ DOMAIN normalized.m = {"sentiment", "topics", "intents"}
        /\ normalized.m["sentiment"].t = "map"
        /\ IsStr(normalized.m["sentiment"].m["label"])
        /\ IsNumOrNull(normalized.m["sentiment"].m["score"])
        /\ EntriesTyped(normalized.m["topics"], "topic")
        /\ EntriesTyped(normalized.m["intents"], "intent")


-----------------------------------------------------------------------------
(* Claims about the intent section of the narrative *)

IntentsIn(resp) ==
    IF resp.m.intents.t = "list" THEN resp.m.intents.l ELSE <<>>

IntentBulletFor(e) ==
    [line |-> "intent", name |-> e.m.intent,
     conf |-> [t |-> "text",
               digits |-> <<ScoreOrZero(e) \div 100,
                            (ScoreOrZero(e) % 100) \div 10,
                            ScoreOrZero(e) % 10>>]]

\* The lines of a narrative after its Intent heading.
IntentLines(n) ==
    LET h == CHOOSE k \in 1..Len(n.lines) :
                 n.lines[k] = [line |-> "heading", text |-> "Intent"]
    IN  SubSeq(n.lines, h + 1, Len(n.lines))

\* C13: in a rendered narrative the intent section branches on the number
\* of intents: none gives the fixed "No clear intent was identified."
\* sentence and no bullet; one gives the singular header; two or more give
\* the plural header; and in the non-empty cases every intent is listed,
\* in its original order, after the header.
C13_IntentSectionByCount ==
    (narrative # Pending /\ ~IsRaise(narrative)) =>
        LET its == IntentsIn(analysis)
            sec == IntentLines(narrative)
        IN  /\ Len(its) = 0 => sec = <<[line |-> "no_intent"]>>
            /\ Len(its) >= 1 =>
                  /\ sec[1] = [line |-> "intent_header",
                               plural |-> Len(its) >= 2]
                  /\ Tail(sec) = [k \in 1..Len(its) |-> IntentBulletFor(its[k])]

\* Two intents, the lower-scored one first, rendered in that order under
\* the plural header.
C13_Witness ==
    /\ narrative # Pending /\ ~IsRaise(narrative)
    /\ Len(IntentsIn(analysis)) = 2
    /\ ScoreOrZero(IntentsIn(analysis)[1]) < ScoreOrZero(IntentsIn(analysis)[2])
    /\ IntentLines(narrative)[1] = [line |-> "intent_header", plural |-> TRUE]
    /\ IntentLines(narrative)[2] = IntentBulletFor(IntentsIn(analysis)[1])


-----------------------------------------------------------------------------
(* Claims about failed synthesis and the cache *)

\* The synthesize calls: the processor's methods, in every tier.
SynthesizeCalls ==
    {"generate_speech", "speak_text", "speak_text_fast", "speak_text_instant"}

RequestFailed(rec) == Len(rec.log) = 1 /\ IsRaise(rec.log[1].reply)
RequestAnswered(rec) == Len(rec.log) = 1 /\ ~IsRaise(rec.log[1].reply)

\* C14: a synthesize call makes at most one remote request; when the
\* request fails or times out the call raises one synthesis-failure
\* exception and leaves the cache exactly as it was; an entry is stored
\* only by a call whose request was answered, and no call overwrites or
\* removes a stored entry.
C14_FailedSynthesisLeavesCache ==
    [][ (ncalls' = ncalls + 1 /\ last'.call \in SynthesizeCalls) =>
          /\ Len(last'.log) <= 1
          /\ \A k \in DOMAIN cache :
                k \in DOMAIN cache' /\ cache'[k] = cache[k]
          /\ RequestFailed(last') =>
                /\ IsRaise(last'.ret) /\ last'.ret.e = "Exception"
                /\ DOMAIN cache' = DOMAIN cache
          /\ DOMAIN cache' # DOMAIN cache =>
                RequestAnswered(last') /\ ~IsRaise(last'.ret) ]_vars

\* A cached-tier call whose request failed, made on a processor that
\* already holds an entry.
C14_Witness ==
    /\ last # Pending
    /\ last.call = "speak_text_fast"
    /\ RequestFailed(last)
    /\ IsRaise(last.ret)
    /\ DOMAIN cache # {}


-----------------------------------------------------------------------------
(* Claims about texts that share a key prefix *)

\* The key prefix and the truncation ceiling of a cached tier, as the
\* specification quotes them.
QuotedPrefix(call)  == IF call = "speak_text_fast" THEN 100 ELSE 50
QuotedCeiling(call) == IF call = "speak_text_fast" THEN 500 ELSE 200

\* The text a tier would send for synthesis on a miss.
WouldSynthesize(rec) == Truncate(rec.text, QuotedCeiling(rec.call))

\* C15: the key of a cached tier comes from a text prefix (100 characters
\* in speak_text_fast, 50 in speak_text_instant) shorter than the tier's
\* truncation ceiling (500 / 200), with voice and language: a call that
\* follows a returned call of the same tier with the same prefix, voice and
\* language makes no remote request and returns that call's artifact,
\* whatever the rest of its text.
C15_PrefixSharesEntry ==
    [][ (/\ ncalls' = ncalls + 1
         /\ last # Pending
         /\ last'.call \in {"speak_text_fast", "speak_text_instant"}
         /\ last.call = last'.call
         /\ ~IsRaise(last.ret)
         /\ TTake(last.text, QuotedPrefix(last.call))
              = TTake(last'.text, QuotedPrefix(last'.call))
         /\ last.voice = last'.voice /\ last.language = last'.language) =>
          /\ QuotedPrefix(last'.call) < QuotedCeiling(last'.call)
          /\ last'.log = <<>>
          /\ last'.ret = last.ret ]_vars

\* A call served from the cache with the audio of another text than the
\* one it would have had synthesized.
C15_Witness ==
    /\ last # Pending
    /\ last.call = "speak_text_fast"
    /\ last.log = <<>>
    /\ last.ret.t = "html"
    /\ last.ret.src_base64.text # WouldSynthesize(last)
    /\ TLen(last.text) <= 500


-----------------------------------------------------------------------------
(* Claims about the session state of the page *)

\* C11: whenever a click on Analyze ends in an error, at any point of the
\* handler, the session's analysis result, transcript and narrative all
\* keep the values they held before the click.
C11_ErrorKeepsSession ==
    [][ (nruns' = nruns + 1 /\ notice'.kind = "error") =>
            session_state' = session_state ]_vars


=============================================================================
